---- MODULE Spec2Model ----
(***************************************************************************)
(* Model of HyperliquidHip3.execute: the per-item loop that turns a batch  *)
(* of trade intents into /info queries and signed /exchange requests.      *)
(* Strings whose characters matter (asset, orderId) are sequences of       *)
(* one-character strings; strings of which only emptiness and equality     *)
(* matter (addresses, prices) are TLA+ strings.  Item indices are 0-based  *)
(* as in the code; returnData is a 1-based sequence.                       *)
(***************************************************************************)
EXTENDS Integers, Sequences, FiniteSets, TLC

\* ---------------------------------------------------------------- bounds
MaxItems == 2
MaxStrLen == 2
MaxClock == 1

\* ------------------------------------------------------------ input sets
Operations ==
  {"placeOrder", "cancelOrder", "cancelAllOrders", "getOpenOrders",
   "getPositions", "getAccountSummary", "getMarketInfo", "getOrderBook",
   "getUserFills"}
SignedOps == {"placeOrder", "cancelOrder", "cancelAllOrders"}
ReadOnlyOps == Operations \ SignedOps

RECURSIVE StringsOver(_, _)
StringsOver(chars, len) ==
  IF len = 0 THEN {<<>>}
  ELSE LET shorter == StringsOver(chars, len - 1)
       IN  shorter \cup {Append(s, c) : s \in {t \in shorter : Len(t) = len - 1}, c \in chars}

AssetChars == {"x", ":"}
OrderIdChars == {"4", "2", "a", "-"}
AssetStrings == StringsOver(AssetChars, MaxStrLen)
OrderIdStrings == StringsOver(OrderIdChars, MaxStrLen)
Sides == {"B", "A"}
OrderTypes == {"market", "limit"}
Sizes == {"1"}
Prices == {"", "1.5", "2"}
Coins == {"ETH"}
VaultAddresses == {"", "0xVVV"}
WalletAddresses == {"", "0xWWW"}
UserAddresses == {"", "0xUUU"}
Networks == {"mainnet", "testnet"}
Responses == {"r1", "r2"}
TransportMessages == {"ECONNRESET"}

\* JavaScript `undefined`, and a key that JSON.stringify leaves out
Undefined == "<undefined>"
\* values an allMids answer can hold for a coin
MidVals == {"", "100"}
MidCoins == {<<"x", ":">>, <<":">>}
AllMidsResponses == UNION {[D -> MidVals] : D \in SUBSET MidCoins}

\* -------------------------------------------------------- pure functions
\* a check of the first character only
Includes_StartsWith(s, c) == Len(s) > 0 /\ s[1] = c

\* String.prototype.includes(':')
Includes(s, c) == \E k \in 1..Len(s) : s[k] = c

CountOf(s, c) == Cardinality({k \in 1..Len(s) : s[k] = c})

\* a test against undefined only
Truthy_NotUndefined(v) == v # Undefined

\* JavaScript truthiness of a string-or-undefined value
Truthy(v) == v # Undefined /\ v # ""

\* marketInfo[asset]
Lookup(marketInfo, asset) ==
  IF asset \in DOMAIN marketInfo THEN marketInfo[asset] ELSE Undefined

\* parseInt(string) with no radix: skip leading white space, take an optional
\* sign, take a 0x/0X prefix as radix 16, read the longest prefix of digits;
\* NaN when there is no digit.
NaN == [nan |-> TRUE, n |-> 0]
Num(k) == [nan |-> FALSE, n |-> k]

DigitVal(c) ==
  CASE c = "0" -> 0 [] c = "1" -> 1 [] c = "2" -> 2 [] c = "3" -> 3
    [] c = "4" -> 4 [] c = "5" -> 5 [] c = "6" -> 6 [] c = "7" -> 7
    [] c = "8" -> 8 [] c = "9" -> 9 [] c = "a" -> 10 [] c = "b" -> 11
    [] c = "c" -> 12 [] c = "d" -> 13 [] c = "e" -> 14 [] c = "f" -> 15
    [] OTHER -> 99

RECURSIVE SkipSpace(_)
SkipSpace(s) ==
  IF Len(s) > 0 /\ s[1] = " " THEN SkipSpace(Tail(s)) ELSE s

RECURSIVE ReadDigits(_, _, _, _)
\* acc: value read so far; seen: whether a digit has been read
ReadDigits(s, radix, acc, seen) ==
  IF Len(s) > 0 /\ DigitVal(s[1]) < radix
  THEN ReadDigits(Tail(s), radix, acc * radix + DigitVal(s[1]), TRUE)
  ELSE IF seen THEN Num(acc) ELSE NaN

ParseInt(str) ==
  LET s0 == SkipSpace(str)
      neg == Len(s0) > 0 /\ s0[1] = "-"
      s1 == IF Len(s0) > 0 /\ s0[1] \in {"-", "+"} THEN Tail(s0) ELSE s0
      hex == Len(s1) >= 2 /\ s1[1] = "0" /\ s1[2] \in {"x", "X"}
      r == IF hex THEN ReadDigits(Tail(Tail(s1)), 16, 0, FALSE)
           ELSE ReadDigits(s1, 10, 0, FALSE)
  IN  IF r.nan THEN NaN ELSE IF neg THEN Num(0 - r.n) ELSE r

\* `vaultAddress || undefined`
VaultField(vaultAddress) ==
  IF Truthy(vaultAddress) THEN vaultAddress ELSE Undefined

\* JSON.stringify of a number: NaN is written as null
JsonNumber(x) == IF x.nan THEN <<"null">> ELSE <<"number", x.n>>

\* ---------------------------------------------------------------- state
VARIABLES
  cfg,          \* node settings and credentials of this execution
  pc,           \* position of execute
  i,            \* loop index
  returnData,   \* results pushed so far
  thrown,       \* error that propagated out of execute
  clock,        \* last value read from Date.now()
  cur,          \* parameters read for the item started last
  limitPx,      \* local of the placeOrder branch
  message,      \* {action, nonce, vaultAddress} that was hashed and signed
  signature,    \* result of wallet.signMessage
  request,      \* argument of the item's last this.helpers.request call
  address,      \* effective trading address
  baseUrl,      \* selected endpoint root
  outstanding,  \* HTTP requests sent and not yet answered
  trace         \* history of requests, answers and signatures

vars == <<cfg, pc, i, returnData, thrown, clock, cur, limitPx, message,
          signature, request, address, baseUrl, outstanding, trace>>

NoError == [name |-> "", text |-> "", arg |-> <<>>]
NoErrorMessage == [text |-> "", arg |-> <<>>]
NoParams == [op |-> "", item |-> -1]
NoPx == [kind |-> "none"]
NoMessage == [type |-> "none"]
NoSignature == [type |-> "none"]
NoRequest == [url |-> ""]
KeyAddress == "0xKKK"

AssetFormatMsg == "HIP3 asset must be in format dex_name:ASSET (e.g., xyz:XYZ100)"
PriceRequiredMsg == "Price is required for limit orders"
MidPriceMsg == "Could not find mid price for "
InvalidKeyMsg == "invalid private key"

NodeOperationError(text, arg) ==
  [name |-> "NodeOperationError", text |-> text, arg |-> arg]
TransportError(text) == [name |-> "TransportError", text |-> text, arg |-> <<>>]

Init ==
  /\ cfg \in [operation : Operations,
              continueOnFail : BOOLEAN,
              nItems : 0..MaxItems,
              keyValid : BOOLEAN,
              network : Networks,
              vaultAddress : VaultAddresses,
              walletAddress : WalletAddresses]
  /\ pc = "init"
  /\ i = 0
  /\ returnData = <<>>
  /\ thrown = NoError
  /\ clock = 0
  /\ cur = NoParams
  /\ limitPx = NoPx
  /\ message = NoMessage
  /\ signature = NoSignature
  /\ request = NoRequest
  /\ address = ""
  /\ baseUrl = ""
  /\ outstanding = {}
  /\ trace = <<>>

\* ------------------------------------------------------------- helpers
Event(ev, item, url, type, resp) ==
  [ev |-> ev, item |-> item, url |-> url, type |-> type, resp |-> resp]

\* the block-scoped locals of an iteration end with it (cur is kept as the
\* record of what the last started item was given)
ResetLocals ==
  /\ limitPx' = NoPx
  /\ message' = NoMessage
  /\ signature' = NoSignature
  /\ request' = NoRequest

\* returnData.push({json: responseData, pairedItem: {item: i}})
DataResult(responseData, item) ==
  [json |-> [tag |-> "data", data |-> responseData, error |-> NoErrorMessage],
   pairedItem |-> [item |-> item]]

\* error.message
ErrorMessage(error) == [text |-> error.text, arg |-> error.arg]

\* returnData.push({json: {error: error.message}, pairedItem: {item: i}})
ErrorResult(error, item) ==
  [json |-> [tag |-> "error", data |-> "", error |-> ErrorMessage(error)],
   pairedItem |-> [item |-> item]]

\* a catch block that rethrows whatever the setting
Catch_AlwaysThrows(error) ==
  /\ thrown' = error
  /\ pc' = "thrown"
  /\ UNCHANGED <<returnData, i>>
  /\ ResetLocals

\* a catch block that isolates whatever the setting
Catch_AlwaysContinues(error) ==
  /\ returnData' = Append(returnData, ErrorResult(error, i))
  /\ i' = i + 1
  /\ pc' = "loop"
  /\ thrown' = thrown
  /\ ResetLocals

\* the catch block of the loop body
Catch(error) ==
  /\ IF cfg.continueOnFail
     THEN /\ returnData' = Append(returnData, ErrorResult(error, i))
          /\ i' = i + 1
          /\ pc' = "loop"
          /\ thrown' = thrown
     ELSE /\ thrown' = error
          /\ pc' = "thrown"
          /\ UNCHANGED <<returnData, i>>
  /\ ResetLocals

\* the push that ends a successful iteration
PushResult(responseData) ==
  /\ returnData' = Append(returnData, DataResult(responseData, i))
  /\ i' = i + 1
  /\ pc' = "loop"
  /\ thrown' = thrown
  /\ ResetLocals

\* this.helpers.request({method: 'POST', url, body, json: true})
HttpRequest(path, reqBody) ==
  [method |-> "POST", url |-> <<baseUrl, path>>, body |-> reqBody, json |-> TRUE]

\* a transport that issues the request twice
Send_Retry(path, type, reqBody) ==
  /\ request' = HttpRequest(path, reqBody)
  /\ outstanding' = outstanding \cup {[item |-> i, url |-> <<baseUrl, path>>, type |-> type]}
  /\ trace' = trace \o <<Event("send", i, path, type, ""), Event("send", i, path, type, "")>>

Send(path, type, reqBody) ==
  /\ request' = HttpRequest(path, reqBody)
  /\ outstanding' = outstanding \cup {[item |-> i, url |-> <<baseUrl, path>>, type |-> type]}
  /\ trace' = Append(trace, Event("send", i, path, type, ""))

\* keccak256(toUtf8Bytes(JSON.stringify(message))): the digest stands for the
\* serialized text, in which NaN is written as null and undefined is left out
JsonStringify(msg) ==
  [msg EXCEPT !.action =
     IF msg.action.type = "cancel"
     THEN [msg.action EXCEPT !.cancels =
             <<[a |-> 0, o |-> JsonNumber(msg.action.cancels[1].o),
                c |-> msg.action.cancels[1].c]>>]
     ELSE msg.action]

Keccak256(text) == [keccak256 |-> text]

\* wallet.signMessage(arrayify(hash))
SignMessage(hash) == [signer |-> KeyAddress, over |-> hash]

\* the message object built before signing
Message(action, timestamp) ==
  [action |-> action, nonce |-> timestamp, vaultAddress |-> VaultField(cfg.vaultAddress)]

\* a body that carries the vault address as configured, empty or not
ExchangeBody_RawVault(action, timestamp, sig) ==
  [action |-> action,
   nonce |-> timestamp,
   signature |-> [r |-> <<"slice", sig, 0, 66>>,
                  s |-> <<"0x", "slice", sig, 66, 130>>,
                  v |-> <<"parseInt16", "slice", sig, 130, 132>>],
   vaultAddress |-> cfg.vaultAddress]

\* the /exchange body
ExchangeBody(action, timestamp, sig) ==
  [action |-> action,
   nonce |-> timestamp,
   signature |-> [r |-> <<"slice", sig, 0, 66>>,
                  s |-> <<"0x", "slice", sig, 66, 130>>,
                  v |-> <<"parseInt16", "slice", sig, 130, 132>>],
   vaultAddress |-> VaultField(cfg.vaultAddress)]

\* const timestamp = Date.now(); build message; hash; start signMessage
\* (events: what the history records just before the signature)
BuildAndSign(action, events) ==
  \E timestamp \in clock..MaxClock :
    /\ clock' = timestamp
    /\ message' = Message(action, timestamp)
    /\ signature' = SignMessage(Keccak256(JsonStringify(Message(action, timestamp))))
    /\ trace' = trace \o events \o <<Event("sign", i, "", action.type, "")>>
    /\ pc' = "signing"

\* ------------------------------------------------------------- actions
\* a resolution that prefers the wallet override to the vault
EffectiveAddress_WalletFirst(vaultAddress, walletAddress, walletDotAddress) ==
  IF Truthy(walletAddress) THEN walletAddress
  ELSE IF Truthy(vaultAddress) THEN vaultAddress
  ELSE walletDotAddress

\* vaultAddress || credentials.walletAddress || wallet.address
EffectiveAddress(vaultAddress, walletAddress, walletDotAddress) ==
  IF Truthy(vaultAddress) THEN vaultAddress
  ELSE IF Truthy(walletAddress) THEN walletAddress
  ELSE walletDotAddress

\* getCredentials, baseUrl, new ethers.Wallet(privateKey), address
Preamble ==
  /\ pc = "init"
  /\ IF cfg.keyValid
     THEN /\ baseUrl' = (IF cfg.network = "testnet"
                         THEN "https://api.hyperliquid-testnet.xyz"
                         ELSE "https://api.hyperliquid.xyz")
          /\ address' = EffectiveAddress(cfg.vaultAddress, cfg.walletAddress, KeyAddress)
          /\ pc' = "loop"
          /\ thrown' = thrown
     ELSE /\ thrown' = [name |-> "Error", text |-> InvalidKeyMsg, arg |-> <<>>]
          /\ pc' = "thrown"
          /\ UNCHANGED <<baseUrl, address>>
  /\ UNCHANGED <<cfg, i, returnData, clock, cur, limitPx, message, signature,
                 request, outstanding, trace>>

OrderAction(p, px) ==
  [type |-> "order",
   orders |-> <<[a |-> 0,
                 b |-> (p.side = "B"),
                 p |-> px,
                 s |-> p.size,
                 r |-> p.reduceOnly,
                 t |-> [limit |-> [tif |-> IF p.orderType = "market" THEN "Ioc" ELSE "Gtc"]],
                 c |-> p.asset]>>,
   grouping |-> "na"]

\* a limit price passed through a number
LimitPx_Reformatted(price) == [kind |-> "product", mid |-> price, factor |-> "1"]

\* limitPx = price
LimitPx(price) == [kind |-> "string", str |-> price]

\* placeOrder, from reading the parameters to the first await or throw
StartPlaceOrder ==
  /\ pc = "loop" /\ i < cfg.nItems /\ cfg.operation = "placeOrder"
  /\ \E asset \in AssetStrings, side \in Sides, size \in Sizes,
        orderType \in OrderTypes, reduceOnly \in BOOLEAN :
       LET p == [op |-> "placeOrder", item |-> i, asset |-> asset, side |-> side, size |-> size,
                 orderType |-> orderType, reduceOnly |-> reduceOnly, price |-> Undefined]
       IN
       IF ~Includes(asset, ":")
       THEN /\ cur' = p
            /\ Catch(NodeOperationError(AssetFormatMsg, <<>>))
            /\ UNCHANGED <<clock, outstanding, trace>>
       ELSE IF orderType = "limit"
       THEN \E price \in Prices :
            IF ~Truthy(price)
            THEN /\ cur' = [p EXCEPT !.price = price]
                 /\ Catch(NodeOperationError(PriceRequiredMsg, <<>>))
                 /\ UNCHANGED <<clock, outstanding, trace>>
            ELSE /\ cur' = [p EXCEPT !.price = price]
                 /\ limitPx' = LimitPx(price)
                 /\ BuildAndSign(OrderAction(p, LimitPx(price)), <<>>)
                 /\ UNCHANGED <<i, returnData, thrown, request, outstanding>>
       ELSE /\ cur' = p
            /\ Send("/info", "allMids", [type |-> "allMids"])
            /\ pc' = "awaitMids"
            /\ UNCHANGED <<i, returnData, thrown, clock, limitPx, message, signature>>
  /\ UNCHANGED <<cfg, address, baseUrl>>

\* a request that is not awaited stays outstanding
Answered_NotAwaited(type) == outstanding

\* the await of the item's request is over
Answered(type) == {r \in outstanding : ~(r.item = i /\ r.type = type)}

\* String(parseFloat(midPrice) * 1.05) or ... * 0.95, kept as a term
MarketPx(side, midPrice) ==
  [kind |-> "product", mid |-> midPrice,
   factor |-> IF side = "B" THEN "1.05" ELSE "0.95"]

\* the allMids answer arrives
MidsResponse ==
  /\ pc = "awaitMids"
  /\ \E marketInfo \in AllMidsResponses :
       LET midPrice == Lookup(marketInfo, cur.asset) IN
       /\ outstanding' = Answered("allMids")
       /\ IF ~Truthy(midPrice)
          THEN /\ Catch(NodeOperationError(MidPriceMsg, cur.asset))
               /\ trace' = Append(trace, Event("recv", i, "/info", "allMids", midPrice))
               /\ UNCHANGED <<clock, cur>>
          ELSE /\ limitPx' = MarketPx(cur.side, midPrice)
               /\ BuildAndSign(OrderAction(cur, MarketPx(cur.side, midPrice)),
                               <<Event("recv", i, "/info", "allMids", midPrice)>>)
               /\ UNCHANGED <<i, returnData, thrown, cur, request>>
  /\ UNCHANGED <<cfg, address, baseUrl>>

\* a request of the item fails in transport
RequestFails ==
  /\ pc \in {"awaitMids", "awaitExchange", "awaitInfo"}
  /\ \E text \in TransportMessages, r \in outstanding :
       /\ r.item = i
       /\ outstanding' = outstanding \ {r}
       /\ trace' = Append(trace, Event("fail", i, r.url[2], r.type, text))
       /\ Catch(TransportError(text))
  /\ UNCHANGED <<cfg, clock, cur, address, baseUrl>>

\* signMessage resolves; the signed action is posted to /exchange
SendExchange ==
  /\ pc = "signing"
  /\ Send("/exchange", message.action.type,
          ExchangeBody(message.action, message.nonce, signature))
  /\ pc' = "awaitExchange"
  /\ UNCHANGED <<cfg, i, returnData, thrown, clock, cur, limitPx, message,
                 signature, address, baseUrl>>

\* the /exchange answer arrives
ExchangeResponse ==
  /\ pc = "awaitExchange"
  /\ \E responseData \in Responses :
       /\ outstanding' = Answered(message.action.type)
       /\ trace' = Append(trace, Event("recv", i, "/exchange", message.action.type, responseData))
       /\ PushResult(responseData)
  /\ UNCHANGED <<cfg, clock, cur, address, baseUrl>>

\* cancelOrder, up to the await of signMessage
StartCancelOrder ==
  /\ pc = "loop" /\ i < cfg.nItems /\ cfg.operation = "cancelOrder"
  /\ \E orderId \in OrderIdStrings, coin \in Coins :
       /\ cur' = [op |-> "cancelOrder", item |-> i, orderId |-> orderId, coin |-> coin]
       /\ BuildAndSign([type |-> "cancel",
                        cancels |-> <<[a |-> 0, o |-> ParseInt(orderId), c |-> coin]>>],
                       <<>>)
  /\ UNCHANGED <<cfg, i, returnData, thrown, limitPx, request, address, baseUrl,
                 outstanding>>

\* cancelAllOrders, up to the await of signMessage
StartCancelAllOrders ==
  /\ pc = "loop" /\ i < cfg.nItems /\ cfg.operation = "cancelAllOrders"
  /\ \E asset \in AssetStrings :
       /\ cur' = [op |-> "cancelAllOrders", item |-> i, asset |-> asset]
       /\ BuildAndSign([type |-> "cancelByCloid",
                        cancels |-> <<[asset |-> asset, cloid |-> "null"]>>],
                       <<>>)
  /\ UNCHANGED <<cfg, i, returnData, thrown, limitPx, request, address, baseUrl,
                 outstanding>>

\* the read-only branches, up to the await of the /info request
InfoBody(operation, p) ==
  CASE operation = "getOpenOrders" -> [type |-> "openOrders", user |-> address]
    [] operation = "getPositions" -> [type |-> "clearinghouseState", user |-> address]
    [] operation = "getAccountSummary" -> [type |-> "clearinghouseState", user |-> address]
    [] operation = "getMarketInfo" -> [type |-> "perpDexs"]
    [] operation = "getOrderBook" -> [type |-> "l2Book", coin |-> p.asset]
    [] operation = "getUserFills" ->
         [type |-> "userFills",
          user |-> IF ~Truthy(p.userAddress) THEN address ELSE p.userAddress]

StartInfo ==
  /\ pc = "loop" /\ i < cfg.nItems /\ cfg.operation \in ReadOnlyOps
  /\ \E asset \in AssetStrings, userAddress \in UserAddresses :
       LET p == CASE cfg.operation = "getOrderBook" ->
                       [op |-> cfg.operation, item |-> i, asset |-> asset]
                  [] cfg.operation = "getUserFills" ->
                       [op |-> cfg.operation, item |-> i, userAddress |-> userAddress]
                  [] OTHER -> [op |-> cfg.operation, item |-> i]
       IN /\ cur' = p
          /\ Send("/info", InfoBody(cfg.operation, p).type, InfoBody(cfg.operation, p))
  /\ pc' = "awaitInfo"
  /\ UNCHANGED <<cfg, i, returnData, thrown, clock, limitPx, message, signature,
                 address, baseUrl>>

\* the /info answer of a read-only operation arrives
InfoResponse ==
  /\ pc = "awaitInfo"
  /\ \E responseData \in Responses :
       /\ outstanding' = Answered(request.body.type)
       /\ trace' = Append(trace, Event("recv", i, "/info", request.body.type, responseData))
       /\ PushResult(responseData)
  /\ UNCHANGED <<cfg, clock, cur, address, baseUrl>>

\* return [returnData]
Return ==
  /\ pc = "loop" /\ ~(i < cfg.nItems)
  /\ pc' = "done"
  /\ UNCHANGED <<cfg, i, returnData, thrown, clock, cur, limitPx, message,
                 signature, request, address, baseUrl, outstanding, trace>>

Next ==
  \/ Preamble
  \/ StartPlaceOrder
  \/ MidsResponse
  \/ SendExchange
  \/ ExchangeResponse
  \/ StartCancelOrder
  \/ StartCancelAllOrders
  \/ StartInfo
  \/ InfoResponse
  \/ RequestFails
  \/ Return

Spec == Init /\ [][Next]_vars

TypeOK ==
  /\ pc \in {"init", "loop", "awaitMids", "signing", "awaitExchange", "awaitInfo",
             "done", "thrown"}
  /\ i \in 0..cfg.nItems
  /\ clock \in 0..MaxClock
  /\ Len(returnData) <= cfg.nItems

\* ------------------------------------------------- reading the history
ItemEvents(k) == SelectSeq(trace, LAMBDA e : e.item = k)

SendsTo(k, url) ==
  Len(SelectSeq(trace, LAMBDA e : e.ev = "send" /\ e.item = k /\ e.url = url))

Signatures(k) == Len(SelectSeq(trace, LAMBDA e : e.ev = "sign" /\ e.item = k))

Items == 0..(cfg.nItems - 1)

\* item k has entered the loop body
Started(k) ==
  \/ k < i
  \/ k = i /\ pc \in {"awaitMids", "signing", "awaitExchange", "awaitInfo"}
  \/ k = i /\ pc = "thrown" /\ cur.item = k

\* item k ended with an error of this message: as its result when errors are
\* isolated, as the error thrown by execute when they are not
FailedWith(k, text) ==
  IF cfg.continueOnFail
  THEN /\ k + 1 <= Len(returnData)
       /\ returnData[k + 1].json.tag = "error"
       /\ returnData[k + 1].json.error.text = text
  ELSE pc = "thrown" /\ i = k /\ thrown.text = text

\* C1: with continueOnFail, no error of an item leaves execute; the results
\* are one per finished item, in input order, result k paired with item k;
\* an item whose request failed or whose validation failed has {error:
\* message}, every other item has the answer it received; at the end there
\* are exactly nItems results.
C1_ErrorIsolation ==
  cfg.continueOnFail =>
    /\ pc = "thrown" => (~cfg.keyValid /\ i = 0 /\ trace = <<>>)
    /\ pc # "thrown" => Len(returnData) = i
    /\ pc = "done" => Len(returnData) = cfg.nItems
    /\ \A k \in 1..Len(returnData) :
         LET res == returnData[k]
             evs == ItemEvents(k - 1)
             last == evs[Len(evs)]
         IN /\ res.pairedItem.item = k - 1
            /\ IF evs = <<>>
               THEN /\ res.json.tag = "error"
                    /\ res.json.error.text \in {AssetFormatMsg, PriceRequiredMsg}
               ELSE CASE last.ev = "fail" ->
                           res.json.tag = "error" /\ res.json.error.text = last.resp
                      [] last.ev = "recv" /\ last.type = "allMids" ->
                           res.json.tag = "error" /\ res.json.error.text = MidPriceMsg
                      [] last.ev = "recv" /\ last.type # "allMids" ->
                           res.json.tag = "data" /\ res.json.data = last.resp
                      [] OTHER -> FALSE

C1_Witness ==
  /\ cfg.continueOnFail /\ pc = "done" /\ cfg.nItems = 2
  /\ Len(returnData) = 2
  /\ returnData[1].json.tag = "error"
  /\ returnData[1].json.error.text \in TransportMessages
  /\ returnData[2].json.tag = "data"

\* C2: without continueOnFail no result is ever an error result; once an
\* error has been thrown execute stands still: nothing is sent, signed or
\* pushed afterwards, the failing item is the last one that has events, and
\* the results are those of the items before it.
C2_AbortState ==
  ~cfg.continueOnFail =>
    /\ \A k \in 1..Len(returnData) : returnData[k].json.tag = "data"
    /\ \A k \in DOMAIN trace : trace[k].ev = "fail" => (pc = "thrown" /\ trace[k].item = i)
    /\ pc = "thrown" =>
         /\ thrown # NoError
         /\ Len(returnData) = i
         /\ outstanding = {}
         /\ \A k \in Items : k > i => (ItemEvents(k) = <<>> /\ ~Started(k))

C2_FirstErrorAborts ==
  /\ []C2_AbortState
  /\ [][~cfg.continueOnFail /\ pc = "thrown" => UNCHANGED vars]_vars
  /\ [][~cfg.continueOnFail /\ thrown' # NoError /\ thrown = NoError
          => (pc' = "thrown" /\ returnData' = returnData /\ i' = i)]_vars

C2_Witness ==
  /\ ~cfg.continueOnFail /\ pc = "thrown" /\ cfg.nItems = 2 /\ i = 0
  /\ thrown.name = "TransportError"
  /\ returnData = <<>>

\* C3: a cancelOrder item is signed only with an orderId that parses as an
\* integer, and then the cancel carries that integer; an orderId that does
\* not parse makes the item fail before anything is signed or sent.
C3_OrderIdValidated ==
  (cfg.operation = "cancelOrder" /\ cur.item >= 0) =>
    IF ParseInt(cur.orderId).nan
    THEN /\ ItemEvents(cur.item) = <<>>
         /\ \/ pc = "thrown"
            \/ /\ cur.item + 1 <= Len(returnData)
               /\ returnData[cur.item + 1].json.tag = "error"
    ELSE pc \in {"signing", "awaitExchange"} =>
           message.action.cancels[1].o = ParseInt(cur.orderId)

\* C4: a placeOrder asset without ':' fails with the asset-format error and
\* the item has sent nothing; an asset with exactly one ':' does not fail
\* with the asset-format error.
C4_AssetValidation ==
  (cfg.operation = "placeOrder" /\ cur.item >= 0) =>
    /\ CountOf(cur.asset, ":") = 0 =>
         /\ FailedWith(cur.item, AssetFormatMsg)
         /\ ItemEvents(cur.item) = <<>>
         /\ \A r \in outstanding : r.item # cur.item
    /\ CountOf(cur.asset, ":") = 1 => ~FailedWith(cur.item, AssetFormatMsg)

C4_Witness ==
  /\ cfg.operation = "placeOrder" /\ cur.item = 1
  /\ CountOf(cur.asset, ":") = 0
  /\ returnData[1].json.tag = "data"
  /\ FailedWith(1, AssetFormatMsg)

\* an allMids answer holds a mid price for the asset when the looked-up value
\* is a non-empty string
HoldsMidPrice(v) == v \in MidVals \ {""}

\* position in the history of the first event of item k that satisfies P,
\* 0 when there is none
FirstIndex(k, P(_)) ==
  LET hits == {j \in DOMAIN trace : trace[j].item = k /\ P(trace[j])}
  IN  IF hits = {} THEN 0 ELSE CHOOSE j \in hits : \A h \in hits : j <= h

IsMidsSend(e) == e.ev = "send" /\ e.type = "allMids"
IsMidsAnswer(e) == e.ev = "recv" /\ e.type = "allMids"
IsSign(e) == e.ev = "sign"
IsExchangeSend(e) == e.ev = "send" /\ e.url = "/exchange"

\* C5: for a market placeOrder with a well-formed asset, the allMids lookup
\* is sent and answered before the signature and before the /exchange post;
\* an answer without a mid price makes the item fail with the mid-price
\* error and nothing is posted to /exchange; with a mid price the item does
\* not end before exactly one /exchange request was sent, and that request
\* carries tif Ioc.
C5_MarketOrder ==
  (cfg.operation = "placeOrder" /\ cur.item >= 0 /\ cur.orderType = "market"
     /\ Includes(cur.asset, ":")) =>
    LET k == cur.item
        sent == FirstIndex(k, IsMidsSend)
        answered == FirstIndex(k, IsMidsAnswer)
        signed == FirstIndex(k, IsSign)
        posted == FirstIndex(k, IsExchangeSend)
    IN /\ sent > 0
       /\ SendsTo(k, "/info") = 1
       /\ signed > 0 => (answered > 0 /\ sent < answered /\ answered < signed)
       /\ posted > 0 => (signed > 0 /\ signed < posted)
       /\ (answered > 0 /\ ~HoldsMidPrice(trace[answered].resp)) =>
            /\ FailedWith(k, MidPriceMsg)
            /\ signed = 0 /\ posted = 0
       /\ (answered > 0 /\ HoldsMidPrice(trace[answered].resp)) =>
            /\ signed > 0
            /\ SendsTo(k, "/exchange") = (IF pc = "signing" THEN 0 ELSE 1)
       /\ SendsTo(k, "/exchange") <= 1
       /\ pc = "awaitExchange" =>
            /\ request.url[2] = "/exchange"
            /\ request.body.action.type = "order"
            /\ request.body.action.orders[1].t.limit.tif = "Ioc"

C5_Witness ==
  /\ cfg.operation = "placeOrder" /\ cur.item >= 0 /\ cur.orderType = "market"
  /\ pc = "awaitExchange"
  /\ SendsTo(cur.item, "/exchange") = 1
  /\ HoldsMidPrice(trace[FirstIndex(cur.item, IsMidsAnswer)].resp)

\* C6: a limit placeOrder with a well-formed asset and an empty price fails
\* with the price-required error and sends nothing; with a non-empty price
\* the signed and the posted order carry that very string as p and tif Gtc,
\* and no allMids lookup is made.
C6_LimitOrder ==
  (cfg.operation = "placeOrder" /\ cur.item >= 0 /\ cur.orderType = "limit"
     /\ Includes(cur.asset, ":")) =>
    LET k == cur.item IN
    /\ SendsTo(k, "/info") = 0
    /\ cur.price = "" =>
         /\ FailedWith(k, PriceRequiredMsg)
         /\ ItemEvents(k) = <<>>
    /\ cur.price # "" =>
         /\ ~FailedWith(k, PriceRequiredMsg)
         /\ pc \in {"signing", "awaitExchange"} =>
              /\ limitPx.kind = "string" /\ limitPx.str = cur.price
              /\ message.action.orders[1].p.kind = "string"
              /\ message.action.orders[1].p.str = cur.price
              /\ message.action.orders[1].t.limit.tif = "Gtc"
         /\ pc = "awaitExchange" =>
              /\ request.url[2] = "/exchange"
              /\ request.body.action.orders[1].p.kind = "string"
              /\ request.body.action.orders[1].p.str = cur.price
              /\ request.body.action.orders[1].t.limit.tif = "Gtc"

C6_Witness ==
  /\ cfg.operation = "placeOrder" /\ cur.item >= 0 /\ cur.orderType = "limit"
  /\ cur.price = "1.5"
  /\ pc = "awaitExchange"
  /\ request.body.action.orders[1].p.str = "1.5"

\* the address the spec prescribes: vault, else wallet override, else the
\* address of the key
PrescribedAddress ==
  CASE cfg.vaultAddress # "" -> cfg.vaultAddress
    [] cfg.vaultAddress = "" /\ cfg.walletAddress # "" -> cfg.walletAddress
    [] OTHER -> KeyAddress

\* C7: after the preamble the effective address is vault, else wallet
\* override, else key address, for the whole batch; it is the user of every
\* getOpenOrders, getPositions and getAccountSummary query and of a
\* getUserFills query whose userAddress is empty.
C7_EffectiveAddress ==
  /\ pc \notin {"init", "thrown"} => address = PrescribedAddress
  /\ (pc = "thrown" /\ cfg.keyValid) => address = PrescribedAddress
  /\ pc = "awaitInfo" =>
       /\ cfg.operation \in {"getOpenOrders", "getPositions", "getAccountSummary"} =>
            request.body.user = PrescribedAddress
       /\ cfg.operation = "getUserFills" =>
            request.body.user =
              (IF cur.userAddress = "" THEN PrescribedAddress ELSE cur.userAddress)

C7_Witness ==
  /\ pc = "awaitInfo" /\ i = 1
  /\ cfg.operation = "getUserFills" /\ cur.userAddress = ""
  /\ cfg.vaultAddress = "" /\ cfg.walletAddress # ""
  /\ request.body.user = cfg.walletAddress

\* C8: while a signed request is in flight, the action, nonce and
\* vaultAddress of its body are those of the signed message, the signature
\* in the body is the one computed over the serialization of exactly that
\* triple, the signature event precedes the post, the nonce is the one clock
\* reading of the item, and an empty vault address is left out of both.
C8_SignedIsSent ==
  pc = "awaitExchange" =>
    LET b == request.body
        k == i
    IN /\ request.url[2] = "/exchange"
       /\ b.action = message.action
       /\ b.nonce = message.nonce
       /\ b.vaultAddress = message.vaultAddress
       /\ signature.over.keccak256 =
            JsonStringify([action |-> b.action, nonce |-> b.nonce,
                           vaultAddress |-> b.vaultAddress])
       /\ b.signature.r[2] = signature
       /\ b.signature.s[3] = signature
       /\ b.signature.v[3] = signature
       /\ b.nonce = clock
       /\ Signatures(k) = 1
       /\ FirstIndex(k, IsSign) < FirstIndex(k, IsExchangeSend)
       /\ cfg.vaultAddress = "" =>
            (b.vaultAddress = Undefined /\ message.vaultAddress = Undefined)
       /\ cfg.vaultAddress # "" =>
            (b.vaultAddress = cfg.vaultAddress /\ message.vaultAddress = cfg.vaultAddress)

C8_Witness ==
  /\ pc = "awaitExchange" /\ cfg.operation = "cancelAllOrders"
  /\ cfg.vaultAddress = "" /\ i = 1 /\ message.nonce = 1
  /\ request.body.vaultAddress = Undefined

\* C9: at most one request is outstanding, it belongs to the item being
\* processed; the history is in item order, and between two requests the
\* earlier one was answered or failed.
C9_Sequential ==
  /\ Cardinality(outstanding) <= 1
  /\ \A r \in outstanding :
       r.item = i /\ pc \in {"awaitMids", "awaitExchange", "awaitInfo"}
  /\ pc \in {"loop", "signing", "done", "thrown"} => outstanding = {}
  /\ \A a, b \in DOMAIN trace : a < b => trace[a].item <= trace[b].item
  /\ \A a, b \in DOMAIN trace :
       (a < b /\ trace[a].ev = "send" /\ trace[b].ev = "send") =>
         \E c \in (a + 1)..(b - 1) :
           /\ trace[c].ev \in {"recv", "fail"}
           /\ trace[c].item = trace[a].item
           /\ trace[c].type = trace[a].type
  /\ \A e \in DOMAIN trace : trace[e].item <= i

C9_Witness ==
  /\ pc = "awaitMids" /\ i = 1 /\ cfg.operation = "placeOrder"
  /\ SendsTo(0, "/info") = 1 /\ SendsTo(0, "/exchange") = 1
  /\ Cardinality(outstanding) = 1

\* C10: a read-only item sends exactly one /info request, is never signed
\* and never posts to /exchange; a signed item posts to /exchange at most
\* once; no item sends anything after one of its requests failed.
C10_NoRetryNoSigning ==
  /\ cfg.operation \in ReadOnlyOps =>
       \A k \in Items :
         /\ SendsTo(k, "/info") = (IF Started(k) THEN 1 ELSE 0)
         /\ SendsTo(k, "/exchange") = 0
         /\ Signatures(k) = 0
  /\ cfg.operation \in ReadOnlyOps => (message = NoMessage /\ signature = NoSignature)
  /\ cfg.operation \in SignedOps =>
       \A k \in Items : SendsTo(k, "/exchange") <= 1
  /\ \A a, b \in DOMAIN trace :
       (a < b /\ trace[a].ev = "fail" /\ trace[a].item = trace[b].item) =>
         trace[b].ev # "send"

C10_Witness ==
  /\ cfg.operation = "getOrderBook" /\ pc = "done" /\ cfg.nItems = 2
  /\ \E a \in DOMAIN trace : trace[a].ev = "fail" /\ trace[a].item = 0
  /\ SendsTo(0, "/info") = 1 /\ SendsTo(1, "/info") = 1

====
